---------------------------- MODULE Spec2Model ----------------------------
(***************************************************************************)
(* A model of the doubly linked list of Collections-C (src/src/list.c).    *)
(*                                                                         *)
(* The heap is explicit: every struct node_s is a cell of `node', the set  *)
(* `live' holds the cells calloc has handed out and free has not taken     *)
(* back, and a pointer is a cell number, NULL being 0.  Every C function   *)
(* is an operator from a machine state m (a record of the heap, the two    *)
(* struct dlist_s and the iterator) to the machine state it leaves,        *)
(* statement by statement.  Reading or writing through a pointer that is   *)
(* NULL or dangling is undefined behaviour: the operator marks the state   *)
(* m.fault and the models below stop there, so no guarantee whatsoever is  *)
(* taken from a run that went through undefined behaviour.                 *)
(***************************************************************************)
EXTENDS Integers, Sequences, FiniteSets, TLC

(***************************************************************************)
(* Bounds of the model.                                                    *)
(***************************************************************************)
MaxLen1 == 3        \* longest first list drawn by InitCall
MaxLen2 == 2        \* longest second list drawn by InitCall
MaxData == 2        \* payloads are 1..MaxData (0 is the NULL payload)
MaxSortLen == 5     \* longest list drawn by InitSort
MaxSortData == 4    \* payloads drawn by InitSort are 1..MaxSortData
MaxLive == 3        \* most cells allocated at once in the sequential model
MaxRevLen == 6      \* longest list drawn by InitReverse
MaxIterLive == 2    \* most cells allocated at once in the iterator model
MaxDequeLen == 3    \* most cells allocated at once in the deque model
MaxWalkLen == 3     \* longest list drawn by InitWalk
MaxSwapLen == 4     \* longest list drawn by InitSwap

NULL == 0
TRAP == 0 - 1       \* what a read through an invalid pointer yields
SizeMod == 2 ^ 16   \* size_t arithmetic is modular; 16 bits is the least
                    \* width the C standard allows for size_t
Lists == {1, 2}
\* The List that the list_new call inside list_sublist returns.
SubList == Cardinality(Lists) + 1

Max(a, b) == IF a > b THEN a ELSE b
\* The cells of the heap: as many as the lists of SpecCall and the copies a
\* call makes of the second take, and one more; the lists of the other
\* specifications are shorter.
MaxNodes == MaxLen1 + 2 * MaxLen2 + 1
Nodes == 1 .. MaxNodes
Data == 1 .. MaxData

VARIABLES
    node,    \* node[p]: the struct node_s at address p: [data, next, prev]
    live,    \* the addresses of the allocated struct node_s
    list,    \* list[l]: the struct dlist_s of list l: [size, head, tail]
    iter,    \* the iterator the caller holds (ListIter or ListDIter)
    call,    \* the public call made last, with its arguments and its result
    old,     \* the machine state that call was made in
    pc       \* "run": any number of calls; "call": one call; "done"

vars == <<node, live, list, iter, call, old, pc>>

(***************************************************************************)
(* struct node_s, struct dlist_s, struct dlist_iter_s after calloc.        *)
(***************************************************************************)
ZeroNode == [data |-> NULL, next |-> NULL, prev |-> NULL]
ZeroList == [size |-> 0, head |-> NULL, tail |-> NULL]
NoIter == [kind |-> "none", index |-> 0, list |-> 0, last |-> NULL, next |-> NULL]

\* list_new: calloc(1, sizeof(List)); the machine state with two new lists.
list_new ==
    [node |-> [p \in Nodes |-> ZeroNode], live |-> {},
     list |-> [l \in Lists \cup {SubList} |-> ZeroList], iter |-> NoIter,
     fault |-> FALSE, ret |-> 0]

Cur == [node |-> node, live |-> live, list |-> list, iter |-> iter,
        fault |-> FALSE, ret |-> 0]

(***************************************************************************)
(* Memory accesses.  p->next, p->prev, p->data as r-values and l-values.   *)
(***************************************************************************)
Fault(m) == [m EXCEPT !.fault = TRUE]

RdNext(m, p) == IF p \in m.live THEN m.node[p].next ELSE TRAP
RdPrev(m, p) == IF p \in m.live THEN m.node[p].prev ELSE TRAP
RdData(m, p) == IF p \in m.live THEN m.node[p].data ELSE TRAP

WrNext(m, p, v) ==
    IF p \in m.live /\ v # TRAP THEN [m EXCEPT !.node[p].next = v] ELSE Fault(m)
WrPrev(m, p, v) ==
    IF p \in m.live /\ v # TRAP THEN [m EXCEPT !.node[p].prev = v] ELSE Fault(m)
WrData(m, p, v) ==
    IF p \in m.live /\ v # TRAP THEN [m EXCEPT !.node[p].data = v] ELSE Fault(m)

SetHead(m, l, v) == IF v # TRAP THEN [m EXCEPT !.list[l].head = v] ELSE Fault(m)
SetTail(m, l, v) == IF v # TRAP THEN [m EXCEPT !.list[l].tail = v] ELSE Fault(m)
SetSize(m, l, v) == [m EXCEPT !.list[l].size = v % SizeMod]

\* return v;
Return(m, v) == IF v # TRAP THEN [m EXCEPT !.ret = v] ELSE Fault(m)

\* calloc(1, sizeof(Node)): the address calloc returns when it succeeds.
NewNode(m) == CHOOSE p \in Nodes \ m.live : \A q \in Nodes \ m.live : p <= q
Calloc(m, p) == [m EXCEPT !.live = @ \cup {p}, !.node[p] = ZeroNode]
\* free(p)
Free(m, p) ==
    IF p \in m.live THEN [m EXCEPT !.live = @ \ {p}, !.node[p] = ZeroNode]
    ELSE Fault(m)

(***************************************************************************)
(* static Node *get_node_at(List *list, size_t index)                      *)
(***************************************************************************)
RECURSIVE WalkNext(_, _, _)
WalkNext(m, p, k) ==
    IF k = 0 \/ p = TRAP THEN p ELSE WalkNext(m, RdNext(m, p), k - 1)

RECURSIVE WalkPrev(_, _, _)
WalkPrev(m, p, k) ==
    IF k = 0 \/ p = TRAP THEN p ELSE WalkPrev(m, RdPrev(m, p), k - 1)

\* Faulty variant: an index past the end is taken for the last one.
get_node_at_clamp(m, l, index) ==
    IF m.list[l].size = 0 THEN NULL
    ELSE IF index >= m.list[l].size THEN m.list[l].tail
    ELSE IF index < m.list[l].size \div 2
         THEN WalkNext(m, m.list[l].head, index)
         ELSE WalkPrev(m, m.list[l].tail, (m.list[l].size - 1) - index)

\* Faulty variant: the bound check is index > size.
get_node_at_off(m, l, index) ==
    IF index > m.list[l].size THEN NULL
    ELSE IF index < m.list[l].size \div 2
         THEN WalkNext(m, m.list[l].head, index)
         ELSE WalkPrev(m, m.list[l].tail, Max(0, (m.list[l].size - 1) - index))

get_node_at(m, l, index) ==
    IF index >= m.list[l].size THEN NULL
    ELSE IF index < m.list[l].size \div 2
         THEN WalkNext(m, m.list[l].head, index)
         ELSE WalkPrev(m, m.list[l].tail, (m.list[l].size - 1) - index)

(***************************************************************************)
(* static Node *get_node(List *list, void *element)                        *)
(* The walk is cut after MaxNodes + 1 steps: a chain that long without a   *)
(* NULL is a cycle, on which the C loop does not end (reported as TRAP).   *)
(***************************************************************************)
RECURSIVE get_node_from(_, _, _, _)
get_node_from(m, p, element, fuel) ==
    IF p = NULL THEN NULL
    ELSE IF fuel = 0 \/ p = TRAP THEN TRAP
    ELSE IF RdData(m, p) = element THEN p
    ELSE get_node_from(m, RdNext(m, p), element, fuel - 1)

get_node(m, l, element) == get_node_from(m, m.list[l].head, element, MaxNodes + 1)

\* Faulty variant: base->prev is not set to the inserted cell.
link_behind_noback(m, base, ins) ==
    LET m1 == IF RdNext(m, ins) # NULL
              THEN WrPrev(m, RdNext(m, ins), RdPrev(m, ins)) ELSE m
        m2 == IF RdPrev(m1, ins) # NULL
              THEN WrNext(m1, RdPrev(m1, ins), RdNext(m1, ins)) ELSE m1
    IN  IF RdPrev(m2, base) = NULL
        THEN WrNext(WrPrev(m2, ins, NULL), ins, base)
        ELSE LET a == WrPrev(m2, ins, RdPrev(m2, base))
                 b == WrNext(a, RdPrev(a, ins), ins)
             IN  WrNext(b, ins, base)

\* Faulty variant: the cell before base is not pointed at the inserted cell.
link_behind_nofwd(m, base, ins) ==
    LET m1 == IF RdNext(m, ins) # NULL
              THEN WrPrev(m, RdNext(m, ins), RdPrev(m, ins)) ELSE m
        m2 == IF RdPrev(m1, ins) # NULL
              THEN WrNext(m1, RdPrev(m1, ins), RdNext(m1, ins)) ELSE m1
    IN  IF RdPrev(m2, base) = NULL
        THEN LET a == WrPrev(m2, ins, NULL)
                 b == WrNext(a, ins, base)
             IN  WrPrev(b, base, ins)
        ELSE LET a == WrPrev(m2, ins, RdPrev(m2, base))
                 c == WrNext(a, ins, base)
             IN  WrPrev(c, base, ins)

(***************************************************************************)
(* static void link_behind(Node *const base, Node *ins)                    *)
(***************************************************************************)
link_behind(m, base, ins) ==
    LET m1 == IF RdNext(m, ins) # NULL
              THEN WrPrev(m, RdNext(m, ins), RdPrev(m, ins)) ELSE m
        m2 == IF RdPrev(m1, ins) # NULL
              THEN WrNext(m1, RdPrev(m1, ins), RdNext(m1, ins)) ELSE m1
    IN  IF RdPrev(m2, base) = NULL
        THEN LET a == WrPrev(m2, ins, NULL)
                 b == WrNext(a, ins, base)
             IN  WrPrev(b, base, ins)
        ELSE LET a == WrPrev(m2, ins, RdPrev(m2, base))
                 b == WrNext(a, RdPrev(a, ins), ins)
                 c == WrNext(b, ins, base)
             IN  WrPrev(c, base, ins)

(***************************************************************************)
(* static void link_after(Node *base, Node *ins)                           *)
(***************************************************************************)
link_after(m, base, ins) ==
    LET m1 == IF RdNext(m, ins) # NULL
              THEN WrPrev(m, RdNext(m, ins), RdPrev(m, ins)) ELSE m
        m2 == IF RdPrev(m1, ins) # NULL
              THEN WrNext(m1, RdPrev(m1, ins), RdNext(m1, ins)) ELSE m1
    IN  IF RdNext(m2, base) = NULL
        THEN LET a == WrPrev(m2, ins, base)
                 b == WrNext(a, base, ins)
             IN  WrNext(b, ins, NULL)
        ELSE LET a == WrNext(m2, ins, RdNext(m2, base))
                 b == WrPrev(a, RdNext(a, ins), ins)
                 c == WrPrev(b, ins, base)
             IN  WrNext(c, base, ins)

\* Faulty variant: the cell before the unlinked one keeps pointing at it.
unlink_noprev(m, l, n) ==
    LET data == RdData(m, n)
        m2 == IF RdPrev(m, n) = NULL
              THEN SetHead(m, l, RdNext(m, n)) ELSE m
        m3 == IF RdNext(m2, n) = NULL
              THEN SetTail(m2, l, RdPrev(m2, n)) ELSE m2
        m4 == IF RdNext(m3, n) # NULL
              THEN WrPrev(m3, RdNext(m3, n), RdPrev(m3, n)) ELSE m3
        m5 == Free(m4, n)
        m6 == SetSize(m5, l, m5.list[l].size - 1)
    IN  Return(m6, data)

(***************************************************************************)
(* static void *unlink(List *list, Node *node)                             *)
(***************************************************************************)
unlink(m, l, n) ==
    LET data == RdData(m, n)
        m1 == IF RdPrev(m, n) # NULL
              THEN WrNext(m, RdPrev(m, n), RdNext(m, n)) ELSE m
        m2 == IF RdPrev(m1, n) = NULL
              THEN SetHead(m1, l, RdNext(m1, n)) ELSE m1
        m3 == IF RdNext(m2, n) = NULL
              THEN SetTail(m2, l, RdPrev(m2, n)) ELSE m2
        m4 == IF RdNext(m3, n) # NULL
              THEN WrPrev(m3, RdNext(m3, n), RdPrev(m3, n)) ELSE m3
        m5 == Free(m4, n)
        m6 == SetSize(m5, l, m5.list[l].size - 1)
    IN  Return(m6, data)


(***************************************************************************)
(* static bool unlink_all(List *list, bool freed), with freed == false.    *)
(* The loop runs over at most the allocated cells; a chain that is longer  *)
(* is a cycle or runs through a freed cell and is reported as a fault.     *)
(***************************************************************************)
RECURSIVE unlink_all_loop(_, _, _, _)
unlink_all_loop(m, l, n, fuel) ==
    IF n = NULL THEN m
    ELSE IF fuel = 0 \/ n = TRAP THEN Fault(m)
    ELSE LET tmp == RdNext(m, n)
         IN  unlink_all_loop(unlink(m, l, n), l, tmp, fuel - 1)

unlink_all(m, l) ==
    IF m.list[l].size <= 0 THEN Return(m, 0)
    ELSE Return(unlink_all_loop(m, l, m.list[l].head, MaxNodes + 1), 1)

\* Faulty variant: the first element of an empty list is not made its tail.
list_add_first_notail(m, l, element, ok) ==
    IF ~ok THEN Return(m, 0)
    ELSE LET n == NewNode(m)
             m1 == WrData(Calloc(m, n), n, element)
             m2 == IF m1.list[l].size = 0
                   THEN SetHead(m1, l, n)
                   ELSE LET a == WrNext(m1, n, m1.list[l].head)
                            b == WrPrev(a, a.list[l].head, n)
                        IN  SetHead(b, l, n)
         IN  Return(SetSize(m2, l, m2.list[l].size + 1), 1)

(***************************************************************************)
(* bool list_add_first(List *list, void *element)                          *)
(* ok: whether calloc succeeds.                                            *)
(***************************************************************************)
list_add_first(m, l, element, ok) ==
    IF ~ok THEN Return(m, 0)
    ELSE LET n == NewNode(m)
             m1 == WrData(Calloc(m, n), n, element)
             m2 == IF m1.list[l].size = 0
                   THEN SetTail(SetHead(m1, l, n), l, n)
                   ELSE LET a == WrNext(m1, n, m1.list[l].head)
                            b == WrPrev(a, a.list[l].head, n)
                        IN  SetHead(b, l, n)
         IN  Return(SetSize(m2, l, m2.list[l].size + 1), 1)

(***************************************************************************)
(* bool list_add_last(List *list, void *element)                           *)
(***************************************************************************)
list_add_last(m, l, element, ok) ==
    IF ~ok THEN Return(m, 0)
    ELSE LET n == NewNode(m)
             m1 == WrData(Calloc(m, n), n, element)
             m2 == IF m1.list[l].size = 0
                   THEN SetTail(SetHead(m1, l, n), l, n)
                   ELSE LET a == WrPrev(m1, n, m1.list[l].tail)
                            b == WrNext(a, a.list[l].tail, n)
                        IN  SetTail(b, l, n)
         IN  Return(SetSize(m2, l, m2.list[l].size + 1), 1)

\* bool list_add(List *list, void *element)
list_add(m, l, element, ok) == list_add_last(m, l, element, ok)

\* Faulty variant: head is not moved to the cell inserted at index 0.
list_add_at_nohead(m, l, element, index, ok) ==
    LET n == get_node_at(m, l, index)
        ins == IF ok THEN NewNode(m) ELSE NULL
        m1 == IF ok THEN Calloc(m, ins) ELSE m
    IN  IF n = NULL \/ ins = NULL THEN Return(m1, 0)
        ELSE LET m2 == WrData(m1, ins, element)
                 m3 == link_behind(m2, n, ins)
             IN  Return(SetSize(m3, l, m3.list[l].size + 1), 1)

(***************************************************************************)
(* bool list_add_at(List *list, void *element, size_t index)               *)
(* The cell is allocated before the index is checked and is not freed on   *)
(* the failure path.                                                       *)
(***************************************************************************)
list_add_at(m, l, element, index, ok) ==
    LET n == get_node_at(m, l, index)
        ins == IF ok THEN NewNode(m) ELSE NULL
        m1 == IF ok THEN Calloc(m, ins) ELSE m
    IN  IF n = NULL \/ ins = NULL THEN Return(m1, 0)
        ELSE LET m2 == WrData(m1, ins, element)
                 m3 == link_behind(m2, n, ins)
                 m4 == IF index = 0 THEN SetHead(m3, l, ins) ELSE m3
             IN  Return(SetSize(m4, l, m4.list[l].size + 1), 1)

(***************************************************************************)
(* bool list_add_all_at(List *list1, List *list2, size_t index)            *)
(* allocs: the number of calloc calls that succeed before one fails.       *)
(* The copy loop yields the machine state and the chain built so far.      *)
(***************************************************************************)
RECURSIVE add_all_copy(_, _, _, _, _, _, _)
add_all_copy(m, l2, i, head, tail, insert, allocs) ==
    IF i >= m.list[l2].size
    THEN [m |-> m, head |-> head, tail |-> tail, failed |-> FALSE]
    ELSE IF i >= allocs
    THEN [m |-> m, head |-> head, tail |-> tail, failed |-> TRUE]
    ELSE LET new == NewNode(m)
             m1 == WrData(Calloc(m, new), new, RdData(m, insert))
             m2 == IF head = NULL THEN m1
                   ELSE WrPrev(WrNext(m1, tail, new), new, tail)
         IN  add_all_copy(m2, l2, i + 1, IF head = NULL THEN new ELSE head,
                          new, RdNext(m2, insert), allocs)

\* Faulty variant: the cells of the unfinished chain are not freed.
add_all_release_none(m, head) == m

RECURSIVE add_all_release(_, _)
add_all_release(m, head) ==
    IF head = NULL THEN m
    ELSE LET tmp == RdNext(m, head) IN add_all_release(Free(m, head), tmp)

\* Faulty variant: end->prev is not set to the last copied cell.
list_add_all_at_noend(m, l1, l2, index, allocs) ==
    IF m.list[l2].size = 0 THEN Return(m, 0)
    ELSE IF index >= m.list[l1].size THEN Return(m, 0)
    ELSE LET c == add_all_copy(m, l2, 0, NULL, NULL, m.list[l2].head, allocs)
         IN  IF c.failed THEN Return(add_all_release(c.m, c.head), 0)
             ELSE
             LET m0 == c.m
                 end == IF index < m0.list[l1].size
                        THEN get_node_at(m0, l1, index) ELSE NULL
                 base == IF index > 0 THEN RdPrev(m0, end) ELSE NULL
                 m1 == IF end = NULL
                       THEN LET a == WrNext(m0, m0.list[l1].tail, c.head)
                                b == WrPrev(a, c.head, a.list[l1].tail)
                            IN  SetTail(b, l1, c.tail)
                       ELSE IF base = NULL
                       THEN LET a == WrPrev(m0, m0.list[l1].head, c.tail)
                                b == WrNext(a, c.tail, a.list[l1].head)
                            IN  SetHead(b, l1, c.head)
                       ELSE LET a == WrPrev(m0, c.head, base)
                                b == WrNext(a, base, c.head)
                            IN  WrNext(b, c.tail, end)
             IN  Return(SetSize(m1, l1, m1.list[l1].size + m1.list[l2].size), 1)

list_add_all_at(m, l1, l2, index, allocs) ==
    IF m.list[l2].size = 0 THEN Return(m, 0)
    ELSE IF index >= m.list[l1].size THEN Return(m, 0)
    ELSE LET c == add_all_copy(m, l2, 0, NULL, NULL, m.list[l2].head, allocs)
         IN  IF c.failed THEN Return(add_all_release(c.m, c.head), 0)
             ELSE
             LET m0 == c.m
                 end == IF index < m0.list[l1].size
                        THEN get_node_at(m0, l1, index) ELSE NULL
                 base == IF index > 0 THEN RdPrev(m0, end) ELSE NULL
                 m1 == IF end = NULL
                       THEN LET a == WrNext(m0, m0.list[l1].tail, c.head)
                                b == WrPrev(a, c.head, a.list[l1].tail)
                            IN  SetTail(b, l1, c.tail)
                       ELSE IF base = NULL
                       THEN LET a == WrPrev(m0, m0.list[l1].head, c.tail)
                                b == WrNext(a, c.tail, a.list[l1].head)
                            IN  SetHead(b, l1, c.head)
                       ELSE LET a == WrPrev(m0, c.head, base)
                                b == WrNext(a, base, c.head)
                                d == WrNext(b, c.tail, end)
                            IN  WrPrev(d, end, c.tail)
             IN  Return(SetSize(m1, l1, m1.list[l1].size + m1.list[l2].size), 1)

\* bool list_add_all(List *list1, List *list2)
list_add_all(m, l1, l2, allocs) ==
    list_add_all_at(m, l1, l2, m.list[l1].size, allocs)

(***************************************************************************)
(* static bool splice_between(List *l1, List *l2, Node *left, Node *right) *)
(***************************************************************************)
\* Faulty variant: an empty list2 is linked in like any other.
splice_between_nocheck(m, l1, l2, left, right) ==
    LET m1 == IF left # NULL
              THEN WrNext(m, left, m.list[l2].head)
              ELSE SetHead(m, l1, m.list[l2].head)
        m2 == IF right # NULL
              THEN WrPrev(m1, right, m1.list[l2].tail)
              ELSE SetTail(m1, l1, m1.list[l2].tail)
        m3 == SetSize(m2, l1, m2.list[l1].size + m2.list[l2].size)
        m4 == SetSize(SetTail(SetHead(m3, l2, NULL), l2, NULL), l2, 0)
    IN  Return(m4, 1)

splice_between(m, l1, l2, left, right) ==
    IF m.list[l2].size = 0 THEN Return(m, 1)
    ELSE LET m1 == IF left # NULL
                   THEN WrNext(m, left, m.list[l2].head)
                   ELSE SetHead(m, l1, m.list[l2].head)
             m2 == IF right # NULL
                   THEN WrPrev(m1, right, m1.list[l2].tail)
                   ELSE SetTail(m1, l1, m1.list[l2].tail)
             m3 == SetSize(m2, l1, m2.list[l1].size + m2.list[l2].size)
             m4 == SetSize(SetTail(SetHead(m3, l2, NULL), l2, NULL), l2, 0)
         IN  Return(m4, 1)

(***************************************************************************)
(* bool list_splice(List *list1, List *list2)                              *)
(* The argument list1->tail->next is evaluated before the call: with       *)
(* list1 empty it is a read through NULL.                                  *)
(***************************************************************************)
list_splice(m, l1, l2) ==
    LET right == RdNext(m, m.list[l1].tail)
    IN  IF right = TRAP THEN Fault(m)
        ELSE splice_between(m, l1, l2, m.list[l1].tail, right)

(***************************************************************************)
(* bool list_splice_before(List *list1, List *list2, size_t index)         *)
(***************************************************************************)
list_splice_before(m, l1, l2, index) ==
    LET new_tail == get_node_at(m, l1, index)
    IN  IF new_tail = NULL THEN Return(m, 0)
        ELSE LET new_head == RdPrev(m, new_tail)
             IN  IF new_head = TRAP THEN Fault(m)
                 ELSE splice_between(m, l1, l2, new_head, new_tail)

(***************************************************************************)
(* bool list_splice_after(List *list1, List *list2, size_t index)          *)
(***************************************************************************)
list_splice_after(m, l1, l2, index) ==
    LET new_head == get_node_at(m, l1, index)
    IN  IF new_head = NULL THEN Return(m, 0)
        ELSE LET new_tail == RdNext(m, new_head)
             IN  IF new_tail = TRAP THEN Fault(m)
                 ELSE splice_between(m, l1, l2, new_head, new_tail)

(***************************************************************************)
(* void *list_remove(List *list, void *element)                            *)
(***************************************************************************)
list_remove(m, l, element) ==
    LET n == get_node(m, l, element)
    IN  IF n = NULL THEN Return(m, NULL) ELSE unlink(m, l, n)

\* void *list_remove_at(List *list, size_t index)
list_remove_at(m, l, index) ==
    LET n == get_node_at(m, l, index)
    IN  IF n = NULL THEN Return(m, NULL) ELSE unlink(m, l, n)

\* void *list_remove_first(List *list)
list_remove_first(m, l) ==
    IF m.list[l].size = 0 THEN Return(m, NULL) ELSE unlink(m, l, m.list[l].head)

\* void *list_remove_last(List *list)
list_remove_last(m, l) ==
    IF m.list[l].size = 0 THEN Return(m, NULL) ELSE unlink(m, l, m.list[l].tail)

\* bool list_remove_all(List *list)
list_remove_all(m, l) == unlink_all(m, l)

(***************************************************************************)
(* void *list_replace_at(List *list, void *element, size_t index)          *)
(***************************************************************************)
list_replace_at(m, l, element, index) ==
    LET n == get_node_at(m, l, index)
    IN  IF n # NULL
        THEN LET oldData == RdData(m, n) IN Return(WrData(m, n, element), oldData)
        ELSE Return(m, NULL)

(***************************************************************************)
(* void *list_get(List *list, size_t index): the value returned.           *)
(***************************************************************************)
list_get(m, l, index) ==
    LET n == get_node_at(m, l, index)
    IN  IF n # NULL THEN RdData(m, n) ELSE NULL

(***************************************************************************)
(* List *list_sublist(List *list, size_t b, size_t e)                      *)
(* sub: the List list_new returned (SubList, or NULL when its calloc       *)
(* failed); fails: the indexes whose list_add finds calloc failing.        *)
(* list_add's result is not looked at.  With sub NULL, a list_add whose    *)
(* calloc succeeds goes on to read sub->size through NULL.                 *)
(***************************************************************************)
RECURSIVE sublist_loop(_, _, _, _, _, _)
sublist_loop(m, sub, n, i, e, fails) ==
    IF i > e THEN m
    ELSE LET m1 == IF sub # NULL THEN list_add(m, sub, RdData(m, n), i \notin fails)
                   ELSE IF i \in fails THEN m
                   ELSE Fault(m)
         IN  sublist_loop(m1, sub, RdNext(m, n), i + 1, e, fails)

list_sublist(m, l, b, e, sub, fails) ==
    IF b > e \/ b < 0 \/ e >= m.list[l].size THEN Return(m, NULL)
    ELSE Return(sublist_loop(m, sub, get_node_at(m, l, b), b, e, fails), sub)

\* Faulty variant: only the case n1->next == n2 is handled.
swap_adjacent_oneway(m, n1, n2) ==
    IF RdNext(m, n1) = n2
    THEN LET a == IF RdNext(m, n2) # NULL
                  THEN WrPrev(m, RdNext(m, n2), n1) ELSE m
             b == WrNext(a, n1, RdNext(a, n2))
             c == IF RdPrev(b, n1) # NULL
                  THEN WrNext(b, RdPrev(b, n1), n2) ELSE b
             d == WrPrev(c, n2, RdPrev(c, n1))
             e == WrPrev(d, n1, n2)
         IN  WrNext(e, n2, n1)
    ELSE m

(***************************************************************************)
(* static void swap_adjacent(Node *n1, Node *n2)                           *)
(***************************************************************************)
swap_adjacent(m, n1, n2) ==
    IF RdNext(m, n1) = n2
    THEN LET a == IF RdNext(m, n2) # NULL
                  THEN WrPrev(m, RdNext(m, n2), n1) ELSE m
             b == WrNext(a, n1, RdNext(a, n2))
             c == IF RdPrev(b, n1) # NULL
                  THEN WrNext(b, RdPrev(b, n1), n2) ELSE b
             d == WrPrev(c, n2, RdPrev(c, n1))
             e == WrPrev(d, n1, n2)
         IN  WrNext(e, n2, n1)
    ELSE IF RdNext(m, n2) = n1
    THEN LET a == IF RdNext(m, n1) # NULL
                  THEN WrPrev(m, RdNext(m, n1), n2) ELSE m
             b == WrNext(a, n2, RdNext(a, n1))
             c == IF RdPrev(b, n2) # NULL
                  THEN WrNext(b, RdPrev(b, n2), n1) ELSE b
             d == WrPrev(c, n1, RdPrev(c, n2))
             e == WrPrev(d, n2, n1)
         IN  WrNext(e, n1, n2)
    ELSE m

(***************************************************************************)
(* static void swap(Node *n1, Node *n2)                                    *)
(***************************************************************************)
swap(m, n1, n2) ==
    IF n1 \notin m.live \/ n2 \notin m.live THEN Fault(m)
    ELSE IF RdNext(m, n1) = n2 \/ RdNext(m, n2) = n1 THEN swap_adjacent(m, n1, n2)
    ELSE LET n1_left == RdPrev(m, n1)
             n1_right == RdNext(m, n1)
             n2_left == RdPrev(m, n2)
             n2_right == RdNext(m, n2)
             a == IF n1_left # NULL THEN WrNext(m, n1_left, n2) ELSE m
             b == WrPrev(a, n2, n1_left)
             c == IF n1_right # NULL THEN WrPrev(b, n1_right, n2) ELSE b
             d == WrNext(c, n2, n1_right)
             e == IF n2_left # NULL THEN WrNext(d, n2_left, n1) ELSE d
             f == WrPrev(e, n1, n2_left)
             g == IF n2_right # NULL THEN WrPrev(f, n2_right, n1) ELSE f
         IN  WrNext(g, n1, n2_right)

(***************************************************************************)
(* void list_reverse(List *list)                                           *)
(***************************************************************************)
\* Faulty variant: the next pair is read after the swap instead of before it.
RECURSIVE reverse_loop_late(_, _, _, _, _)
reverse_loop_late(m, i, n, left, right) ==
    IF i >= n THEN m
    ELSE LET m1 == swap(m, left, right)
         IN  reverse_loop_late(m1, i + 1, n, RdNext(m1, left), RdPrev(m1, right))

RECURSIVE reverse_loop(_, _, _, _, _)
reverse_loop(m, i, n, left, right) ==
    IF i >= n THEN m
    ELSE LET tmpl == RdNext(m, left)
             tmpr == RdPrev(m, right)
         IN  reverse_loop(swap(m, left, right), i + 1, n, tmpl, tmpr)

\* Faulty variant: head is not moved to the old tail.
list_reverse_nohead(m, l) ==
    LET head_old == m.list[l].head
        tail_old == m.list[l].tail
        m1 == reverse_loop(m, 0, m.list[l].size \div 2, head_old, tail_old)
    IN  Return(SetTail(m1, l, head_old), 0)

list_reverse(m, l) ==
    LET head_old == m.list[l].head
        tail_old == m.list[l].tail
        m1 == reverse_loop(m, 0, m.list[l].size \div 2, head_old, tail_old)
    IN  Return(SetTail(SetHead(m1, l, tail_old), l, head_old), 0)

(***************************************************************************)
(* The comparators a caller passes to list_sort: int (*cmp)(void*, void*). *)
(* "asc" and "desc" order the payloads as numbers; "half" orders them by   *)
(* (payload + 1) / 2, a total preorder under which the payloads 1 and 2,   *)
(* 3 and 4, ... compare equal.                                             *)
(***************************************************************************)
Cmps == {"asc", "desc", "half"}
Sign(x) == IF x < 0 THEN 0 - 1 ELSE IF x > 0 THEN 1 ELSE 0
cmp(c, e1, e2) ==
    IF c = "asc" THEN Sign(e1 - e2)
    ELSE IF c = "desc" THEN Sign(e2 - e1)
    ELSE Sign(((e1 + 1) \div 2) - ((e2 + 1) \div 2))

(***************************************************************************)
(* static void merge(Node **left, Node **right, size_t l_size,             *)
(*                   size_t r_size, int (*cmp)(void*, void*))              *)
(* The loop state: the machine state, the counters i, l and r, the         *)
(* pointers l_part and r_part and the two in/out parameters.               *)
(***************************************************************************)
\* Faulty variant: equal payloads are taken from the right partition first.
InOrder_strict(k) == k = 0 - 1

\* Faulty variant: the test is inverted.
InOrder_inverted(k) == k = 1 \/ k = 0

\* if ((c == -1 || c == 0)): the left element stays where it is.
InOrder(k) == k = 0 - 1 \/ k = 0

RECURSIVE merge_loop(_, _, _, _)
merge_loop(st, l_size, r_size, c) ==
    LET size == r_size + l_size
        m == st.m
    IN  IF st.i >= size THEN st
        ELSE IF st.l_part \notin m.live \/ st.r_part \notin m.live
        THEN [st EXCEPT !.m = Fault(m)]
        ELSE
        LET k == cmp(c, RdData(m, st.l_part), RdData(m, st.r_part))
        IN  IF InOrder(k)
            THEN IF st.i = 0 /\ size = 2 THEN st
                 ELSE IF st.l = l_size
                 THEN [st EXCEPT !.right =
                          WalkNext(m, st.r_part, Max(0, (r_size - 1) - st.r))]
                 ELSE merge_loop([st EXCEPT !.l_part = RdNext(m, st.l_part),
                                            !.l = st.l + 1, !.i = st.i + 1],
                                 l_size, r_size, c)
            ELSE LET tmp == RdNext(m, st.r_part)
                     m1 == link_behind(m, st.l_part, st.r_part)
                 IN  IF st.i = 0 /\ size = 2
                     THEN [st EXCEPT !.m = m1, !.right = st.l_part,
                                     !.left = st.r_part]
                     ELSE IF st.r + 1 = r_size
                     THEN [st EXCEPT !.m = m1, !.right =
                              WalkNext(m1, st.l_part, Max(0, (l_size - 1) - st.l))]
                     ELSE merge_loop([st EXCEPT !.m = m1, !.r = st.r + 1,
                                         !.left = IF st.i = 0 THEN st.r_part ELSE @,
                                         !.r_part = tmp, !.i = st.i + 1],
                                     l_size, r_size, c)

merge(m, left, right, l_size, r_size, c) ==
    merge_loop([m |-> m, i |-> 0, l |-> 0, r |-> 0, l_part |-> left,
                r_part |-> right, left |-> left, right |-> right],
               l_size, r_size, c)

(***************************************************************************)
(* static Node *split(List *list, Node *b, size_t size, cmp)               *)
(* Yields the machine state and the node returned.                         *)
(***************************************************************************)
RECURSIVE split(_, _, _, _, _)
split(m, l, b, size, c) ==
    IF size < 2 THEN [m |-> m, ret |-> b]
    ELSE LET l_size == size \div 2
             r_size == size \div 2 + (size % 2)
             center == WalkNext(m, b, l_size)
             lh == split(m, l, b, l_size, c)
             rh == split(lh.m, l, center, r_size, c)
             mg == merge(rh.m, lh.ret, rh.ret, l_size, r_size, c)
             m1 == SetTail(SetHead(mg.m, l, mg.left), l, mg.right)
         IN  [m |-> m1, ret |-> mg.left]

\* void list_sort(List *list, int (*cmp)(void *e1, void *e2))
list_sort(m, l, c) == Return(split(m, l, m.list[l].head, m.list[l].size, c).m, 0)

(***************************************************************************)
(* The iterators.  struct dlist_iter_s and struct dlist_iter_desc_s have   *)
(* the same fields; kind tells which of the two the caller holds.          *)
(***************************************************************************)
SetIter(m, last, next, index) ==
    IF last = TRAP \/ next = TRAP THEN Fault(m)
    ELSE [m EXCEPT !.iter.last = last, !.iter.next = next,
                   !.iter.index = index % SizeMod]

\* ListIter *list_iter_new(List *list)
list_iter_new(m, l) ==
    [m EXCEPT !.iter = [kind |-> "asc", index |-> 0, list |-> l,
                        last |-> NULL, next |-> m.list[l].head]]

\* void list_iter_destroy(ListIter *iter), void list_diter_destroy(ListDIter *iter)
list_iter_destroy(m) == [m EXCEPT !.iter = NoIter]

\* Faulty variant: iter->last is not cleared.
list_iter_remove_keep(m) ==
    IF m.iter.last = NULL THEN Return(m, NULL)
    ELSE unlink(m, m.iter.list, m.iter.last)

\* void *list_iter_remove(ListIter *iter)
list_iter_remove(m) ==
    IF m.iter.last = NULL THEN Return(m, NULL)
    ELSE LET m1 == unlink(m, m.iter.list, m.iter.last)
         IN  SetIter(m1, NULL, m1.iter.next, m1.iter.index)

\* bool list_iter_add(ListIter *iter, void *element)
list_iter_add(m, element, ok) ==
    LET new_node == IF ok THEN NewNode(m) ELSE NULL
        m1 == IF ok THEN Calloc(m, new_node) ELSE m
        m2 == WrData(m1, new_node, element)
        m3 == link_behind(m2, m2.iter.next, new_node)
        m4 == SetSize(m3, m3.iter.list, m3.list[m3.iter.list].size + 1)
    IN  Return(SetIter(m4, new_node, m4.iter.next, m4.iter.index + 1), 1)

\* void *list_iter_replace(ListIter *iter, void *element)
list_iter_replace(m, element) ==
    LET oldData == RdData(m, m.iter.last)
    IN  Return(WrData(m, m.iter.last, element), oldData)

\* bool list_iter_has_next(ListIter *iter)
list_iter_has_next(m) == m.iter.next # NULL

\* size_t list_iter_index(ListIter *iter)
list_iter_index(m) == (m.iter.index - 1) % SizeMod

\* Faulty variant: the cursor is not moved to the next cell.
list_iter_next_stay(m) ==
    LET data == RdData(m, m.iter.next)
    IN  Return(SetIter(m, m.iter.next, m.iter.next, m.iter.index + 1), data)

\* void *list_iter_next(ListIter *iter)
list_iter_next(m) ==
    LET data == RdData(m, m.iter.next)
    IN  Return(SetIter(m, m.iter.next, RdNext(m, m.iter.next), m.iter.index + 1),
               data)

\* ListDIter *list_diter_new(List *list)
list_diter_new(m, l) ==
    [m EXCEPT !.iter = [kind |-> "desc", index |-> (m.list[l].size - 1) % SizeMod,
                        list |-> l, last |-> NULL, next |-> m.list[l].tail]]

\* bool list_diter_add(ListDIter *iter, void *element)
list_diter_add(m, element, ok) ==
    LET new_node == IF ok THEN NewNode(m) ELSE NULL
        m1 == IF ok THEN Calloc(m, new_node) ELSE m
        m2 == WrData(m1, new_node, element)
        m3 == link_after(m2, m2.iter.next, new_node)
        m4 == SetSize(m3, m3.iter.list, m3.list[m3.iter.list].size + 1)
    IN  Return(SetIter(m4, new_node, m4.iter.next, m4.iter.index), 1)

\* Faulty variant: the upcoming cell is unlinked instead of the last returned.
list_diter_remove_next(m) ==
    IF m.iter.last = NULL THEN Return(m, NULL)
    ELSE LET m1 == unlink(m, m.iter.list, m.iter.next)
         IN  SetIter(m1, NULL, m1.iter.next, m1.iter.index)

\* void *list_diter_remove(ListDIter *iter)
list_diter_remove(m) ==
    IF m.iter.last = NULL THEN Return(m, NULL)
    ELSE LET m1 == unlink(m, m.iter.list, m.iter.last)
         IN  SetIter(m1, NULL, m1.iter.next, m1.iter.index)

\* void *list_diter_replace(ListDIter *iter, void *element)
list_diter_replace(m, element) ==
    LET oldData == RdData(m, m.iter.last)
    IN  Return(WrData(m, m.iter.last, element), oldData)

\* size_t dlist_diter_index(ListDIter *iter)
dlist_diter_index(m) == (m.iter.index - 1) % SizeMod

\* bool list_diter_has_next(ListDIter *iter)
list_diter_has_next(m) == m.iter.next # NULL

\* void *list_diter_next(ListDIter *iter)
list_diter_next(m) ==
    LET data == RdData(m, m.iter.next)
    IN  Return(SetIter(m, m.iter.next, RdPrev(m, m.iter.next), m.iter.index + 1),
               data)

(***************************************************************************)
(* What a list holds, read off the heap.                                   *)
(* Fwd(m, l): the cells met walking next from head; Bwd(m, l): the cells   *)
(* met walking prev from tail.  A walk that leaves the allocated cells or  *)
(* does not end within MaxNodes cells (a cycle) ends in TRAP.              *)
(***************************************************************************)
RECURSIVE ChainNext(_, _, _)
ChainNext(m, p, fuel) ==
    IF p = NULL THEN <<>>
    ELSE IF p \notin m.live \/ fuel = 0 THEN <<TRAP>>
    ELSE <<p>> \o ChainNext(m, m.node[p].next, fuel - 1)

RECURSIVE ChainPrev(_, _, _)
ChainPrev(m, p, fuel) ==
    IF p = NULL THEN <<>>
    ELSE IF p \notin m.live \/ fuel = 0 THEN <<TRAP>>
    ELSE <<p>> \o ChainPrev(m, m.node[p].prev, fuel - 1)

Fwd(m, l) == ChainNext(m, m.list[l].head, MaxNodes)
Bwd(m, l) == ChainPrev(m, m.list[l].tail, MaxNodes)

Rev(s) == [k \in 1 .. Len(s) |-> s[Len(s) + 1 - k]]
Range(s) == {s[k] : k \in 1 .. Len(s)}
DataOf(m, s) == [k \in 1 .. Len(s) |-> RdData(m, s[k])]

\* The payloads of list l from head to tail (on a chain free of TRAP).
Elems(m, l) == DataOf(m, Fwd(m, l))

(***************************************************************************)
(* The structural invariant of a list (specification, section 3).          *)
(***************************************************************************)
WellFormed(m, l) ==
    LET f == Fwd(m, l)
    IN  /\ TRAP \notin Range(f)
        /\ m.list[l].size = Len(f)
        /\ \A k \in 1 .. Len(f) - 1 : m.node[f[k + 1]].prev = f[k]
        /\ (m.list[l].size = 0) <=> (m.list[l].head = NULL /\ m.list[l].tail = NULL)
        /\ Len(f) > 0 =>
              /\ m.list[l].tail = f[Len(f)]
              /\ m.node[f[1]].prev = NULL

(***************************************************************************)
(* The caller.  A public call is one step: it takes the machine from the   *)
(* state the variables hold to the state the function leaves, and records  *)
(* the call, its arguments and its result in `call' and the state it was   *)
(* made in in `old'.  A call that runs into undefined behaviour leaves     *)
(* call.fault set and the program makes no further step.                   *)
(*                                                                         *)
(* The caller keeps to the contract of section 5 of the specification: it  *)
(* makes no list call while it holds an iterator (it destroys the iterator *)
(* first), and it passes two different lists where two are taken.  In a    *)
(* sequence of calls (pc "run", "seq" or "deque") the model follows the    *)
(* program up to and including the first call that leaves a list           *)
(* ill-formed: what the functions do on a broken list is not part of any   *)
(* contract.  In a sequence with pc "seq" or "deque", `old' is the state   *)
(* before the last call and call.prev and call.pret are the function and   *)
(* the result of the call before it.                                       *)
(***************************************************************************)
Snap(m) == [node |-> m.node, live |-> m.live, list |-> m.list, iter |-> m.iter]

NoCall == [op |-> "none", l |-> 0, l2 |-> 0, e |-> 0, i |-> 0, a |-> 0,
           c |-> "", ret |-> 0, fault |-> FALSE, prev |-> "none", pret |-> 0,
           k |-> 0, plan |-> {}]

\* The indexes passed: every index of a list and, for the longest list too,
\* one that is not.
Indexes == 0 .. Max(MaxLen1, MaxLive)

Cap ==
    IF pc = "run" THEN MaxLive
    ELSE IF pc = "seq" THEN MaxIterLive
    ELSE IF pc = "deque" THEN MaxDequeLen
    ELSE MaxNodes

\* Whether the model's heap has room for k more cells.
Room(k) == Cardinality(live) + k <= Cap

\* The counters are kept within the model's range: no call is made once a
\* size or the iterator's index has left it (size_t wraps to SizeMod - 1 when 0
\* is decremented; an index of SizeMod - 1 is that of a ListDIter on an empty
\* list).
Running ==
    /\ pc # "done" /\ ~call.fault
    /\ \A l \in Lists : list[l].size <= Cap /\ (pc \in {"run", "seq", "deque"} => WellFormed(Cur, l))
    /\ iter.index <= 2 * Cap \/ iter.index = SizeMod - 1

\* What `call' keeps of a call: all of it when one call is made, and the
\* function, its list, its result and whether it faulted in a sequence of calls.
Record(c, m) ==
    LET r == [c EXCEPT !.ret = IF m.fault THEN 0 ELSE m.ret, !.fault = m.fault]
    IN  IF pc = "run" THEN [r EXCEPT !.e = 0, !.i = 0, !.a = 0, !.c = ""]
        ELSE IF pc \in {"seq", "deque"} THEN [r EXCEPT !.prev = call.op, !.pret = call.ret]
        ELSE r

\* The caller may make a list call, and a call on its iterator of kind k.
ListReady == Running /\ iter.kind = "none"
IterReady(k) == Running /\ iter.kind = k

Do(c, m) ==
    /\ node' = IF m.fault THEN node ELSE m.node
    /\ live' = IF m.fault THEN live ELSE m.live
    /\ list' = IF m.fault THEN list ELSE m.list
    /\ iter' = IF m.fault THEN iter ELSE m.iter
    /\ call' = Record(c, m)
    /\ old' = IF pc \in {"call", "seq", "deque"} THEN Snap(Cur) ELSE old
    /\ pc' = CASE pc = "call" -> "done"
             [] pc = "first" -> "second"
             [] pc = "second" -> "done"
             [] OTHER -> pc

\* A call in a traversal: `old' is kept and the caller goes to p.
DoTo(c, m, p) ==
    /\ node' = IF m.fault THEN node ELSE m.node
    /\ live' = IF m.fault THEN live ELSE m.live
    /\ list' = IF m.fault THEN list ELSE m.list
    /\ iter' = IF m.fault THEN iter ELSE m.iter
    /\ call' = Record(c, m)
    /\ old' = old
    /\ pc' = p

Bit(b) == IF b THEN 1 ELSE 0

\* The lists the calls at the two ends are made on: the deque model follows
\* one list.
Targets == IF pc = "deque" THEN {1} ELSE Lists

Call_add_first ==
    /\ ListReady
    /\ \E l \in Targets, e \in Data, ok \in BOOLEAN :
        /\ Room(Bit(ok))
        /\ Do([NoCall EXCEPT !.op = "list_add_first", !.l = l, !.e = e, !.a = Bit(ok)],
              list_add_first(Cur, l, e, ok))

Call_add_last ==
    /\ ListReady
    /\ \E l \in Targets, e \in Data, ok \in BOOLEAN :
        /\ Room(Bit(ok))
        /\ Do([NoCall EXCEPT !.op = "list_add_last", !.l = l, !.e = e, !.a = Bit(ok)],
              list_add_last(Cur, l, e, ok))

Call_add_at ==
    /\ ListReady
    /\ \E l \in Lists, e \in Data, i \in Indexes, ok \in BOOLEAN :
        /\ Room(Bit(ok))
        /\ Do([NoCall EXCEPT !.op = "list_add_at", !.l = l, !.e = e, !.i = i,
                             !.a = Bit(ok)],
              list_add_at(Cur, l, e, i, ok))

Call_add_all_at ==
    /\ ListReady
    /\ \E l \in Lists, i \in Indexes, a \in 0 .. MaxLen2 :
        /\ a <= list[3 - l].size /\ Room(a)
        /\ Do([NoCall EXCEPT !.op = "list_add_all_at", !.l = l, !.l2 = 3 - l,
                             !.i = i, !.a = a],
              list_add_all_at(Cur, l, 3 - l, i, a))

Call_add_all ==
    /\ ListReady
    /\ \E l \in Lists, a \in 0 .. MaxLen2 :
        /\ a <= list[3 - l].size /\ Room(a)
        /\ Do([NoCall EXCEPT !.op = "list_add_all", !.l = l, !.l2 = 3 - l, !.a = a],
              list_add_all(Cur, l, 3 - l, a))

Call_splice ==
    /\ ListReady
    /\ \E l \in Lists :
        /\ Do([NoCall EXCEPT !.op = "list_splice", !.l = l, !.l2 = 3 - l],
              list_splice(Cur, l, 3 - l))

Call_splice_before ==
    /\ ListReady
    /\ \E l \in Lists, i \in Indexes :
        /\ Do([NoCall EXCEPT !.op = "list_splice_before", !.l = l, !.l2 = 3 - l,
                             !.i = i],
              list_splice_before(Cur, l, 3 - l, i))

Call_splice_after ==
    /\ ListReady
    /\ \E l \in Lists, i \in Indexes :
        /\ Do([NoCall EXCEPT !.op = "list_splice_after", !.l = l, !.l2 = 3 - l,
                             !.i = i],
              list_splice_after(Cur, l, 3 - l, i))

Call_remove ==
    /\ ListReady
    /\ \E l \in Lists, e \in Data :
        /\ Do([NoCall EXCEPT !.op = "list_remove", !.l = l, !.e = e],
              list_remove(Cur, l, e))

Call_remove_at ==
    /\ ListReady
    /\ \E l \in Lists, i \in Indexes :
        /\ Do([NoCall EXCEPT !.op = "list_remove_at", !.l = l, !.i = i],
              list_remove_at(Cur, l, i))

Call_remove_first ==
    /\ ListReady
    /\ \E l \in Targets :
        /\ Do([NoCall EXCEPT !.op = "list_remove_first", !.l = l],
              list_remove_first(Cur, l))

Call_remove_last ==
    /\ ListReady
    /\ \E l \in Targets :
        /\ Do([NoCall EXCEPT !.op = "list_remove_last", !.l = l],
              list_remove_last(Cur, l))

Call_remove_all ==
    /\ ListReady
    /\ \E l \in Lists :
        /\ Do([NoCall EXCEPT !.op = "list_remove_all", !.l = l],
              list_remove_all(Cur, l))

Call_replace_at ==
    /\ ListReady
    /\ \E l \in Lists, e \in Data, i \in Indexes :
        /\ Do([NoCall EXCEPT !.op = "list_replace_at", !.l = l, !.e = e, !.i = i],
              list_replace_at(Cur, l, e, i))

Call_get ==
    /\ ListReady
    /\ \E l \in Lists, i \in Indexes :
        LET v == list_get(Cur, l, i)
        IN  Do([NoCall EXCEPT !.op = "list_get", !.l = l, !.i = i],
               IF v = TRAP THEN Fault(Cur) ELSE Return(Cur, v))

Call_sublist ==
    /\ ListReady
    /\ \E l \in Lists, b \in Indexes, e \in Indexes, sub \in {NULL, SubList} :
        \E fails \in SUBSET (b .. e) :
            Do([NoCall EXCEPT !.op = "list_sublist", !.l = l, !.i = b, !.e = e,
                              !.a = Bit(sub # NULL /\ fails = {})],
               list_sublist(Cur, l, b, e, sub, fails))

Call_reverse ==
    /\ ListReady
    /\ \E l \in Lists :
        /\ Do([NoCall EXCEPT !.op = "list_reverse", !.l = l], list_reverse(Cur, l))

Call_sort ==
    /\ ListReady
    /\ \E l \in Lists, c \in Cmps :
        /\ Do([NoCall EXCEPT !.op = "list_sort", !.l = l, !.c = c],
              list_sort(Cur, l, c))

Call_iter_new ==
    /\ ListReady
    /\ \E l \in Lists :
        /\ Do([NoCall EXCEPT !.op = "list_iter_new", !.l = l], list_iter_new(Cur, l))

Call_diter_new ==
    /\ ListReady
    /\ \E l \in Lists :
        /\ Do([NoCall EXCEPT !.op = "list_diter_new", !.l = l], list_diter_new(Cur, l))

Call_iter_destroy ==
    /\ Running /\ iter.kind # "none"
    /\ Do([NoCall EXCEPT !.op = "list_iter_destroy", !.l = iter.list],
          list_iter_destroy(Cur))

Call_iter_next ==
    /\ IterReady("asc")
    /\ Do([NoCall EXCEPT !.op = "list_iter_next", !.l = iter.list],
          list_iter_next(Cur))

Call_iter_remove ==
    /\ IterReady("asc")
    /\ Do([NoCall EXCEPT !.op = "list_iter_remove", !.l = iter.list],
          list_iter_remove(Cur))

Call_iter_add ==
    /\ IterReady("asc")
    /\ \E e \in Data, ok \in BOOLEAN :
        /\ Room(Bit(ok))
        /\ Do([NoCall EXCEPT !.op = "list_iter_add", !.l = iter.list, !.e = e,
                             !.a = Bit(ok)],
              list_iter_add(Cur, e, ok))

Call_iter_replace ==
    /\ IterReady("asc")
    /\ \E e \in Data :
        /\ Do([NoCall EXCEPT !.op = "list_iter_replace", !.l = iter.list, !.e = e],
              list_iter_replace(Cur, e))

Call_diter_next ==
    /\ IterReady("desc")
    /\ Do([NoCall EXCEPT !.op = "list_diter_next", !.l = iter.list],
          list_diter_next(Cur))

Call_diter_remove ==
    /\ IterReady("desc")
    /\ Do([NoCall EXCEPT !.op = "list_diter_remove", !.l = iter.list],
          list_diter_remove(Cur))

Call_diter_add ==
    /\ IterReady("desc")
    /\ \E e \in Data, ok \in BOOLEAN :
        /\ Room(Bit(ok))
        /\ Do([NoCall EXCEPT !.op = "list_diter_add", !.l = iter.list, !.e = e,
                             !.a = Bit(ok)],
              list_diter_add(Cur, e, ok))

Call_diter_replace ==
    /\ IterReady("desc")
    /\ \E e \in Data :
        /\ Do([NoCall EXCEPT !.op = "list_diter_replace", !.l = iter.list, !.e = e],
              list_diter_replace(Cur, e))

\* swap(n1, n2) as the list functions call it, on two cells of list 1.
Call_swap ==
    /\ ListReady
    /\ \E n1 \in live, n2 \in live :
        /\ n1 # n2
        /\ Do([NoCall EXCEPT !.op = "swap", !.l = 1, !.i = n1, !.a = n2],
              swap(Cur, n1, n2))

(***************************************************************************)
(* A traversal of list 1 (pc "walk" or "scan"):                                  *)
(*     it = list_iter_new(list);           or list_diter_new               *)
(*     while (list_iter_has_next(it)) {    or list_diter_has_next          *)
(*         e = list_iter_next(it);         or list_diter_next              *)
(*         if (...) list_iter_remove(it);  or list_diter_remove            *)
(*     }                                                                   *)
(* call.k counts the advances made and call.plan is the set of advances    *)
(* after which the caller removes the element it was handed (with pc       *)
(* "scan" the empty set: the traversal leaves the list alone); `old' stays *)
(* the machine state the traversal started in.  The traversal is over      *)
(* (pc = "done") when has_next has returned false.                         *)
(***************************************************************************)
Advances == {"list_iter_next", "list_diter_next"}
Removes == {"list_iter_remove", "list_diter_remove"}

HasNext(m) ==
    IF m.iter.kind = "asc" THEN list_iter_has_next(m) ELSE list_diter_has_next(m)

\* The caller is at the loop test: not between an advance and its removal.
AtTest == call.op \notin Advances \/ call.k \notin call.plan

Walking == pc \in {"walk", "scan"}
Plans == IF pc = "scan" THEN {{}} ELSE SUBSET (1 .. list[1].size)

Walk_new ==
    /\ Walking /\ ListReady /\ call.op = "none"
    /\ \E plan \in Plans :
        \/ DoTo([NoCall EXCEPT !.op = "list_iter_new", !.l = 1, !.plan = plan],
                list_iter_new(Cur, 1), pc)
        \/ DoTo([NoCall EXCEPT !.op = "list_diter_new", !.l = 1, !.plan = plan],
                list_diter_new(Cur, 1), pc)

Walk_next ==
    /\ Walking /\ Running /\ iter.kind # "none"
    /\ AtTest /\ HasNext(Cur) /\ call.k <= MaxWalkLen
    /\ IF iter.kind = "asc"
       THEN DoTo([call EXCEPT !.op = "list_iter_next", !.k = call.k + 1],
                 list_iter_next(Cur), pc)
       ELSE DoTo([call EXCEPT !.op = "list_diter_next", !.k = call.k + 1],
                 list_diter_next(Cur), pc)

Walk_remove ==
    /\ Walking /\ Running /\ iter.kind # "none"
    /\ ~AtTest
    /\ IF iter.kind = "asc"
       THEN DoTo([call EXCEPT !.op = "list_iter_remove"], list_iter_remove(Cur), pc)
       ELSE DoTo([call EXCEPT !.op = "list_diter_remove"], list_diter_remove(Cur), pc)

Walk_end ==
    /\ Walking /\ Running /\ iter.kind # "none"
    /\ AtTest /\ ~HasNext(Cur)
    /\ DoTo([call EXCEPT !.op = IF iter.kind = "asc" THEN "list_iter_has_next"
                                ELSE "list_diter_has_next"],
            Return(Cur, Bit(HasNext(Cur))), "done")

(***************************************************************************)
(* Lists as the program builds them: Build(s1, s2) is the machine state    *)
(* after list_new twice and one list_add_last per element of s1 on the     *)
(* first list and of s2 on the second.                                     *)
(***************************************************************************)
RECURSIVE AddAll(_, _, _)
AddAll(m, l, s) ==
    IF s = <<>> THEN m
    ELSE AddAll(list_add_last(m, l, Head(s), TRUE), l, Tail(s))

Build(s1, s2) == AddAll(AddAll(list_new, 1, s1), 2, s2)

SeqsUpTo(S, n) == UNION {[1 .. k -> S] : k \in 0 .. n}

Start(m, p) ==
    /\ node = m.node /\ live = m.live /\ list = m.list /\ iter = m.iter
    /\ call = NoCall /\ old = Snap(m) /\ pc = p

(***************************************************************************)
(* Spec: the program from two new lists, any sequence of public calls.     *)
(***************************************************************************)
Init == Start(list_new, "run")

ListCall ==
    \/ Call_add_first \/ Call_add_last \/ Call_add_at
    \/ Call_add_all_at \/ Call_add_all
    \/ Call_splice \/ Call_splice_before \/ Call_splice_after
    \/ Call_remove \/ Call_remove_at \/ Call_remove_first \/ Call_remove_last
    \/ Call_remove_all \/ Call_replace_at \/ Call_reverse \/ Call_sort
    \/ Call_iter_new \/ Call_diter_new

IterCall ==
    \/ Call_iter_destroy
    \/ Call_iter_next \/ Call_iter_remove \/ Call_iter_add \/ Call_iter_replace
    \/ Call_diter_next \/ Call_diter_remove \/ Call_diter_add
    \/ Call_diter_replace

Next == ListCall \/ IterCall

Spec == Init /\ [][Next]_vars

\* The calls that read a list: they are made in SpecCall.
ReadCall ==
    \/ Call_get
    \/ Call_sublist

(***************************************************************************)
(* SpecCall: one public list call on every pair of lists of bounded        *)
(* length, each built by list_add_last.                                    *)
(***************************************************************************)
InitCall ==
    \E s1 \in SeqsUpTo(Data, MaxLen1), s2 \in SeqsUpTo(Data, MaxLen2) :
        Start(Build(s1, s2), "call")

SpecCall == InitCall /\ [][ListCall \/ ReadCall]_vars

(***************************************************************************)
(* SpecSort: one list_sort call on every list of bounded length, with      *)
(* every comparator of Cmps.                                               *)
(***************************************************************************)
InitSort ==
    \E s1 \in SeqsUpTo(1 .. MaxSortData, MaxSortLen) :
        Start(Build(s1, <<>>), "call")

NextSort ==
    /\ ListReady
    /\ \E c \in Cmps :
        Do([NoCall EXCEPT !.op = "list_sort", !.l = 1, !.c = c], list_sort(Cur, 1, c))

SpecSort == InitSort /\ [][NextSort]_vars

(***************************************************************************)
(* SpecReverse: list_reverse called twice in a row on every list of        *)
(* bounded length; `old' stays the machine state before the first call.    *)
(***************************************************************************)
InitReverse ==
    \E s1 \in SeqsUpTo(Data, MaxRevLen) : Start(Build(s1, <<>>), "first")

NextReverse ==
    /\ ListReady
    /\ Do([NoCall EXCEPT !.op = "list_reverse", !.l = 1], list_reverse(Cur, 1))

SpecReverse == InitReverse /\ [][NextReverse]_vars

(***************************************************************************)
(* SpecIter: any sequence of iterator calls on every list of bounded       *)
(* length: the caller takes a ListIter or a ListDIter, calls its functions *)
(* in any order, destroys it and may take another.                         *)
(***************************************************************************)
InitIter ==
    \E s1 \in SeqsUpTo(Data, MaxIterLive) :
        Start(Build(s1, <<>>), "seq")

NextIter == Call_iter_new \/ Call_diter_new \/ IterCall

SpecIter == InitIter /\ [][NextIter]_vars

(***************************************************************************)
(* SpecDeque: any sequence of insertions and removals at the two ends of   *)
(* list 1, starting empty; an insertion may fail to allocate.              *)
(***************************************************************************)
InitDeque == Start(list_new, "deque")

NextDeque ==
    Call_add_first \/ Call_add_last \/ Call_remove_first \/ Call_remove_last

SpecDeque == InitDeque /\ [][NextDeque]_vars

(***************************************************************************)
(* SpecWalk: one traversal, forward or backward, of every list of bounded  *)
(* length, with every plan of removals.                                    *)
(***************************************************************************)
InitWalk ==
    \E s1 \in SeqsUpTo(Data, MaxWalkLen) : Start(Build(s1, <<>>), "walk")

NextWalk == Walk_new \/ Walk_next \/ Walk_remove \/ Walk_end

SpecWalk == InitWalk /\ [][NextWalk]_vars

(***************************************************************************)
(* SpecScan: one traversal, forward or backward, of every list of bounded  *)
(* length, that leaves the list alone.  The caller is a sequential         *)
(* program: it goes on to its next statement as long as it has one, which  *)
(* is weak fairness of its step.                                           *)
(***************************************************************************)
InitScan ==
    \E s1 \in SeqsUpTo(Data, MaxWalkLen) : Start(Build(s1, <<>>), "scan")

NextScan == Walk_new \/ Walk_next \/ Walk_end

SpecScan == InitScan /\ [][NextScan]_vars /\ WF_vars(NextScan)

(***************************************************************************)
(* SpecSwap: one call of swap on every pair of different cells of every    *)
(* list of bounded length.                                                 *)
(***************************************************************************)
InitSwap ==
    \E s1 \in SeqsUpTo(Data, MaxSwapLen) : Start(Build(s1, <<>>), "call")

NextSwap == Call_swap

SpecSwap == InitSwap /\ [][NextSwap]_vars

(***************************************************************************)
(* Properties.                                                             *)
(* Under SpecCall and SpecSort a state with pc = "done" is the state a     *)
(* call left: `call' is the call, `old' the machine state it was made in.  *)
(***************************************************************************)
Called(op) == pc = "done" /\ call.op = op

Count(s, v) == Cardinality({k \in 1 .. Len(s) : s[k] = v})
Perm(s, t) ==
    /\ Len(s) = Len(t)
    /\ \A v \in Range(s) \cup Range(t) : Count(s, v) = Count(t, v)

\* The place of cell p in the chain s (0 when it is not in it).
PosIn(s, p) == IF p \in Range(s) THEN CHOOSE k \in 1 .. Len(s) : s[k] = p ELSE 0

\* C1: after any sequence of public calls every list satisfies its structural
\* invariant: size is the number of cells on the next chain from head, the
\* chain ends at tail, adjacent cells point at each other, head has no prev
\* and tail no next, and size is 0 exactly when head and tail are NULL.
C1_StructuralInvariant == \A l \in Lists : WellFormed(Cur, l)

\* list_splice on two lists that are not empty returns with the receiving
\* list broken: the first moved cell has no prev.
C1_Witness ==
    /\ pc = "run" /\ call.op = "list_splice" /\ ~call.fault
    /\ list[call.l].size = 2
    /\ Len(Fwd(Cur, call.l)) = 2 /\ Len(Bwd(Cur, call.l)) = 1
    /\ ~WellFormed(Cur, call.l)

\* C2: after list_splice(list1, list2) with list2 not empty, list2 is empty
\* (size 0, head and tail NULL), list1.size is the sum of the two sizes, and
\* list1 from head is the cells of list1 followed by the cells of list2 (the
\* same cells, with their payloads).
C2_SpliceAppends ==
    (Called("list_splice") /\ old.list[call.l2].size > 0) =>
        /\ ~call.fault
        /\ list[call.l2] = ZeroList
        /\ list[call.l].size = old.list[call.l].size + old.list[call.l2].size
        /\ Fwd(Cur, call.l) = Fwd(old, call.l) \o Fwd(old, call.l2)
        /\ Elems(Cur, call.l) = Elems(old, call.l) \o Elems(old, call.l2)

\* list_splice onto an empty list reads list1->tail->next through NULL.
C2_Witness ==
    /\ Called("list_splice") /\ call.fault
    /\ old.list[call.l] = ZeroList /\ old.list[call.l2].size = 1

\* C3: after list_splice_before(list1, list2, i), with both lists not empty and
\* i < list1.size, list1 from head is list1[0..i-1], list2, list1[i..], from
\* tail it is the reverse of that, and list_get(list1, k) is the k-th element
\* of it; after list_splice_after the same with list2 behind list1[i].
C3_SpliceAtIndex ==
    (/\ Called("list_splice_before") \/ Called("list_splice_after")
     /\ old.list[call.l2].size > 0
     /\ call.i < old.list[call.l].size) =>
        LET f1 == Fwd(old, call.l)
            f2 == Fwd(old, call.l2)
            cut == IF call.op = "list_splice_before" THEN call.i ELSE call.i + 1
            want == SubSeq(f1, 1, cut) \o f2 \o SubSeq(f1, cut + 1, Len(f1))
        IN  /\ ~call.fault
            /\ Fwd(Cur, call.l) = want
            /\ Bwd(Cur, call.l) = Rev(want)
            /\ \A k \in 0 .. Len(want) - 1 :
                  list_get(Cur, call.l, k) = old.node[want[k + 1]].data

\* list_splice_before([1], [2], 0): size is 2, but from head only the moved
\* cell is found, and from tail both.
C3_Witness ==
    /\ Called("list_splice_before") /\ call.l = 1 /\ call.i = 0 /\ ~call.fault
    /\ Elems(old, 1) = <<1>> /\ Elems(old, 2) = <<2>>
    /\ list[1].size = 2
    /\ Elems(Cur, 1) = <<2>>
    /\ DataOf(Cur, Bwd(Cur, 1)) = <<1, 2>>

\* C4: after list_sort the payloads from head are in non-decreasing order
\* under the comparator, they are a permutation of the payloads the list held,
\* and size is unchanged.
C4_SortOrders ==
    Called("list_sort") =>
        LET e == Elems(Cur, call.l)
        IN  /\ ~call.fault
            /\ TRAP \notin Range(Fwd(Cur, call.l))
            /\ \A k \in 1 .. Len(e) - 1 : cmp(call.c, e[k], e[k + 1]) <= 0
            /\ Perm(e, Elems(old, call.l))
            /\ list[call.l].size = old.list[call.l].size

C4_Witness ==
    /\ Called("list_sort") /\ call.c = "asc"
    /\ Elems(old, 1) = <<3, 1, 2>> /\ Elems(Cur, 1) = <<1, 2, 3>>

\* C5: list_sort is stable: of two cells whose payloads compare equal, the one
\* that was nearer the head before the call is nearer the head after it.
C5_SortStable ==
    Called("list_sort") =>
        LET f == Fwd(Cur, call.l)
            o == Fwd(old, call.l)
        IN  /\ Range(f) = Range(o)
            /\ \A i, j \in 1 .. Len(f) :
                  (i < j /\ cmp(call.c, RdData(Cur, f[i]), RdData(Cur, f[j])) = 0)
                      => PosIn(o, f[i]) < PosIn(o, f[j])

C5_Witness ==
    /\ Called("list_sort") /\ call.c = "half"
    /\ Elems(old, 1) = <<3, 4, 1>> /\ Elems(Cur, 1) = <<1, 3, 4>>

\* C6: after list_sort head is the first cell of the sorted chain and has no
\* prev, tail is its last cell and has no next, and the walk along prev from
\* tail meets the cells of the walk along next from head in reverse order.
C6_SortHeadTail ==
    Called("list_sort") =>
        LET f == Fwd(Cur, call.l)
        IN  /\ TRAP \notin Range(f)
            /\ Range(f) = Range(Fwd(old, call.l))
            /\ Len(f) = old.list[call.l].size
            /\ Len(f) = 0 => list[call.l].head = NULL /\ list[call.l].tail = NULL
            /\ Len(f) > 0 =>
                  /\ list[call.l].head = f[1] /\ node[f[1]].prev = NULL
                  /\ list[call.l].tail = f[Len(f)] /\ node[f[Len(f)]].next = NULL
            /\ Bwd(Cur, call.l) = Rev(f)

C6_Witness ==
    /\ Called("list_sort") /\ call.c = "asc"
    /\ Elems(old, 1) = <<3, 1, 2>>
    /\ list[1].head # old.list[1].head /\ list[1].tail # old.list[1].tail
    /\ Len(Bwd(Cur, 1)) = 3

\* C7: list_sort allocates and frees no cell and changes no payload: the
\* allocated cells, the cells of the list and the payload of every cell are
\* what they were.
C7_SortRelinksOnly ==
    Called("list_sort") =>
        /\ live = old.live
        /\ \A p \in Nodes : node[p].data = old.node[p].data
        /\ Range(Fwd(Cur, call.l)) = Range(Fwd(old, call.l))

C7_Witness ==
    /\ Called("list_sort") /\ call.c = "desc"
    /\ Elems(old, 1) = <<1, 2, 3, 4, 4>> /\ Fwd(old, 1) = <<1, 2, 3, 4, 5>>
    /\ Elems(Cur, 1) = <<4, 4, 3, 2, 1>> /\ Fwd(Cur, 1) = <<4, 5, 3, 2, 1>>

\* C8: list_add_at(list, x, i) on a list that is not empty, with i < size and
\* calloc succeeding, returns true, size grows by 1, list_get(list, i) is x,
\* the elements before i keep their index, those from i on move up by one, and
\* with i = 0 head is the new cell.
C8_AddAt ==
    (/\ Called("list_add_at") /\ call.a = 1
     /\ call.i < old.list[call.l].size) =>
        /\ ~call.fault /\ call.ret = 1
        /\ list[call.l].size = old.list[call.l].size + 1
        /\ list_get(Cur, call.l, call.i) = call.e
        /\ \A k \in 0 .. call.i - 1 :
              list_get(Cur, call.l, k) = list_get(old, call.l, k)
        /\ \A k \in call.i .. old.list[call.l].size - 1 :
              list_get(Cur, call.l, k + 1) = list_get(old, call.l, k)
        /\ call.i = 0 =>
              /\ list[call.l].head \in live \ old.live
              /\ node[list[call.l].head].data = call.e

C8_Witness ==
    /\ Called("list_add_at") /\ call.ret = 1 /\ call.l = 1 /\ call.i = 0
    /\ call.e = 2 /\ Elems(old, 1) = <<1, 1, 1>> /\ Elems(Cur, 1) = <<2, 1, 1, 1>>

C10_RemoveAt ==
    (Called("list_remove_at") /\ call.i < old.list[call.l].size) =>
        /\ ~call.fault
        /\ call.ret = list_get(old, call.l, call.i)
        /\ list[call.l].size = old.list[call.l].size - 1
        /\ \A k \in 0 .. call.i - 1 :
              list_get(Cur, call.l, k) = list_get(old, call.l, k)
        /\ \A k \in call.i .. list[call.l].size - 1 :
              list_get(Cur, call.l, k) = list_get(old, call.l, k + 1)
        /\ Elems(Cur, call.l) =
              SubSeq(Elems(old, call.l), 1, call.i)
                  \o SubSeq(Elems(old, call.l), call.i + 2, old.list[call.l].size)

C10_Witness ==
    /\ Called("list_remove_at") /\ call.l = 1 /\ call.i = 1
    /\ Elems(old, 1) = <<1, 2, 1>> /\ call.ret = 2 /\ Elems(Cur, 1) = <<1, 1>>

\* C11: list_get, list_remove_at and list_replace_at with index >= size return
\* NULL and leave size, head, tail, every link and every payload as they were.
C11_OutOfRange ==
    (/\ Called("list_get") \/ Called("list_remove_at") \/ Called("list_replace_at")
     /\ call.i >= old.list[call.l].size) =>
        /\ ~call.fault
        /\ call.ret = NULL
        /\ list = old.list /\ node = old.node /\ live = old.live

C11_Witness ==
    /\ Called("list_replace_at") /\ call.l = 1 /\ call.i = 2 /\ call.e = 1
    /\ Elems(old, 1) = <<1, 2>> /\ call.ret = NULL /\ Elems(Cur, 1) = <<1, 2>>

\* C12: list_reverse applied twice gives back the list: the same size, the
\* same cells in the same order from head (and so the same payloads), head and
\* tail the first and last cell of the original.
C12_ReverseTwice ==
    (pc = "done" /\ call.op = "list_reverse") =>
        /\ ~call.fault
        /\ list[1].size = old.list[1].size
        /\ Fwd(Cur, 1) = Fwd(old, 1)
        /\ Elems(Cur, 1) = Elems(old, 1)
        /\ list[1].head = old.list[1].head /\ list[1].tail = old.list[1].tail

C12_Witness ==
    /\ pc = "done" /\ call.op = "list_reverse"
    /\ Elems(old, 1) = <<1, 1, 2, 1, 2>> /\ Elems(Cur, 1) = <<1, 1, 2, 1, 2>>
    /\ list[1].head = 1 /\ list[1].tail = 5

\* C13: a remove through a cursor that follows a remove through it with no
\* advance in between finds no last returned cell, returns NULL and leaves
\* the size, the cells and the links of the list as they were.
C13_RemoveTwice ==
    (/\ pc = "seq"
     /\ call.op \in {"list_iter_remove", "list_diter_remove"}
     /\ call.prev = call.op) =>
        /\ ~call.fault
        /\ old.iter.last = NULL
        /\ call.ret = NULL
        /\ list = old.list /\ node = old.node /\ live = old.live

\* The first remove took the 2 out of a list that is now [1].
C13_Witness ==
    /\ pc = "seq" /\ call.op = "list_iter_remove" /\ call.prev = "list_iter_remove"
    /\ call.pret = 2 /\ call.ret = NULL /\ ~call.fault
    /\ Elems(Cur, 1) = <<1>> /\ Cardinality(live) = 1

\* C14: remove or replace through a cursor that has no last returned cell
\* (a new cursor, or one whose last returned cell was just removed) does
\* nothing and returns NULL: nothing is read through NULL and the list is left
\* as it was.
C14_NoLastIsNoOp ==
    (/\ pc = "seq"
     /\ call.op \in {"list_iter_remove", "list_diter_remove",
                     "list_iter_replace", "list_diter_replace"}
     /\ old.iter.last = NULL) =>
        /\ ~call.fault
        /\ call.ret = NULL
        /\ list = old.list /\ node = old.node /\ live = old.live

\* list_iter_replace on a new cursor reads iter->last->data through NULL.
C14_Witness ==
    /\ pc = "seq" /\ call.op = "list_iter_replace" /\ call.prev = "list_iter_new"
    /\ old.iter.last = NULL /\ call.fault
    /\ Elems(Cur, 1) = <<1, 2>>

\* The sequence s with x put in before its k-th element (k = Len(s) + 1: at
\* the end).
InsertAt(s, k, x) == SubSeq(s, 1, k - 1) \o <<x>> \o SubSeq(s, k, Len(s))

\* C15: list_iter_add puts the new element just before the element the next
\* advance would return (last when there is none), list_diter_add just after
\* it (first when there is none); size grows by 1 and the list, head and
\* tail included, holds the new element there.
C15_CursorAdd ==
    (/\ pc = "seq"
     /\ call.op \in {"list_iter_add", "list_diter_add"}
     /\ call.a = 1) =>
        LET l == call.l
            f == Fwd(old, l)
            k == PosIn(f, old.iter.next)
            at == IF call.op = "list_iter_add"
                  THEN (IF k = 0 THEN Len(f) + 1 ELSE k)
                  ELSE k + 1
        IN  /\ ~call.fault
            /\ call.ret = 1
            /\ list[l].size = old.list[l].size + 1
            /\ Elems(Cur, l) = InsertAt(Elems(old, l), at, call.e)
            /\ WellFormed(Cur, l)

\* list_iter_add(2) through a new cursor on [1]: size is 2, from head the
\* list is still [1], the new cell is found only from tail.
C15_Witness ==
    /\ pc = "seq" /\ call.op = "list_iter_add" /\ call.prev = "list_iter_new"
    /\ call.a = 1 /\ call.e = 2 /\ ~call.fault
    /\ Elems(old, 1) = <<1>> /\ list[1].size = 2
    /\ Elems(Cur, 1) = <<1>> /\ DataOf(Cur, Bwd(Cur, 1)) = <<1, 2>>

\* C16: after list_iter_next, list_iter_index is the index, counted from
\* head, of the element list_iter_next returned.
C16_IterIndex ==
    (pc = "seq" /\ call.op = "list_iter_next" /\ ~call.fault) =>
        list_iter_index(Cur) = PosIn(Fwd(Cur, call.l), iter.last) - 1

\* On [1, 2]: advance, remove, advance; the 2 is at index 0 and
\* list_iter_index is 1.
C16_Witness ==
    /\ pc = "seq" /\ call.op = "list_iter_next" /\ call.prev = "list_iter_remove"
    /\ call.pret = 1 /\ call.ret = 2 /\ ~call.fault
    /\ Elems(Cur, 1) = <<2>> /\ list_iter_index(Cur) = 1

\* What a call left of list l: its struct, its cells in order and what they
\* hold are as before the call.
SameList(l) ==
    /\ list[l] = old.list[l]
    /\ Fwd(Cur, l) = Fwd(old, l)
    /\ \A p \in Range(Fwd(old, l)) : p \in live /\ node[p] = old.node[p]

\* C17: list_add_all_at(list1, list2, index) with list2 not empty, index <
\* list1.size and every calloc succeeding returns true; list1 is list1[0..
\* index-1], the payloads of list2 in order, list1[index..], its size grown by
\* list2.size, with consistent links, head and tail; the cells put in are new
\* ones and list2, its cells included, is as it was.
C17_AddAllAt ==
    (/\ Called("list_add_all_at")
     /\ old.list[call.l2].size > 0
     /\ call.i < old.list[call.l].size
     /\ call.a = old.list[call.l2].size) =>
        LET e1 == Elems(old, call.l)
            e2 == Elems(old, call.l2)
            f1 == Fwd(old, call.l)
            f == Fwd(Cur, call.l)
            new == Range(f) \ Range(f1)
            IsOld(p) == p \in Range(f1)
        IN  /\ ~call.fault
            /\ call.ret = 1
            /\ list[call.l].size = old.list[call.l].size + old.list[call.l2].size
            /\ WellFormed(Cur, call.l)
            /\ Elems(Cur, call.l) =
                  SubSeq(e1, 1, call.i) \o e2 \o SubSeq(e1, call.i + 1, Len(e1))
            /\ SelectSeq(f, IsOld) = f1
            /\ new \cap old.live = {} /\ Cardinality(new) = Len(e2)
            /\ live = old.live \cup new
            /\ SameList(call.l2)

C17_Witness ==
    /\ Called("list_add_all_at") /\ call.l = 1 /\ call.i = 1 /\ call.a = 2
    /\ Elems(old, 1) = <<1, 1, 1>> /\ Elems(old, 2) = <<2, 2>>
    /\ call.ret = 1 /\ Elems(Cur, 1) = <<1, 2, 2, 1, 1>>

\* C18: when list_add_all_at returns false (list2 empty, index not below
\* list1.size, or a calloc failing at any point) both lists are as they were
\* and every cell allocated during the call has been freed.
C18_AddAllAtFails ==
    (Called("list_add_all_at") /\ call.ret = 0) =>
        /\ ~call.fault
        /\ list = old.list /\ node = old.node /\ live = old.live

\* The second of three calloc calls fails.
C18_Witness ==
    /\ Called("list_add_all_at") /\ call.l = 2 /\ call.i = 0 /\ call.a = 1
    /\ Elems(old, 1) = <<1, 2, 1>> /\ Elems(old, 2) = <<2>>
    /\ call.ret = 0 /\ ~call.fault /\ live = old.live

\* C19: list_add_all(list1, list2) with list2 not empty and every calloc
\* succeeding returns true; list1 is list1 followed by the payloads of list2,
\* its size grown by list2.size, and list2 is as it was.
C19_AddAll ==
    (/\ Called("list_add_all")
     /\ old.list[call.l2].size > 0
     /\ call.a = old.list[call.l2].size) =>
        /\ ~call.fault
        /\ call.ret = 1
        /\ list[call.l].size = old.list[call.l].size + old.list[call.l2].size
        /\ Elems(Cur, call.l) = Elems(old, call.l) \o Elems(old, call.l2)
        /\ SameList(call.l2)

\* list_add_all([1, 2], [1]) returns false and adds nothing.
C19_Witness ==
    /\ Called("list_add_all") /\ call.l = 1 /\ call.a = 1
    /\ Elems(old, 1) = <<1, 2>> /\ Elems(old, 2) = <<1>>
    /\ call.ret = 0 /\ ~call.fault /\ Elems(Cur, 1) = <<1, 2>>

\* C20: list_sublist(list, b, e) with b <= e < size returns a new list of
\* e - b + 1 elements, the payloads at the indexes b..e of the list in that
\* order, held in cells of its own; with b > e or e >= size it returns NULL.
\* The list itself is as it was in both cases.
C20_Sublist ==
    Called("list_sublist") =>
        /\ ~call.fault
        /\ SameList(call.l)
        /\ IF call.i <= call.e /\ call.e < old.list[call.l].size
           THEN /\ call.ret = SubList
                /\ list[SubList].size = call.e - call.i + 1
                /\ WellFormed(Cur, SubList)
                /\ Elems(Cur, SubList) =
                      SubSeq(Elems(old, call.l), call.i + 1, call.e + 1)
                /\ Range(Fwd(Cur, SubList)) \cap old.live = {}
           ELSE /\ call.ret = NULL
                /\ live = old.live /\ list[SubList] = ZeroList

\* list_sublist([1, 2, 1], 0, 2) with the calloc of the second cell failing
\* returns the list [1, 1].
C20_Witness ==
    /\ Called("list_sublist") /\ call.l = 1 /\ call.i = 0 /\ call.e = 2
    /\ Elems(old, 1) = <<1, 2, 1>> /\ call.a = 0 /\ ~call.fault
    /\ call.ret = SubList /\ list[SubList].size = 2
    /\ Elems(Cur, SubList) = <<1, 1>>

\* C21: the calls at the two ends refine a double-ended sequence.  In any
\* sequence of list_add_first, list_add_last, list_remove_first and
\* list_remove_last from empty lists, with s the payloads of the list before
\* a call: an insertion that returns true puts its element in front of s
\* (list_add_first) or behind it (list_add_last) and one that returns false
\* leaves s; a removal on a list that is not empty returns the first
\* (list_remove_first) or last (list_remove_last) element of s and leaves the
\* rest; a removal on an empty list returns NULL and leaves size 0 and head
\* and tail NULL; after every call size is the length of the sequence, the
\* payloads from head are the sequence and those from tail its reverse, and
\* the other list is as it was.
C21_DequeRefinement ==
    (pc = "deque" /\ call.op # "none") =>
        LET l == call.l
            s == Elems(old, l)
            t == Elems(Cur, l)
        IN  /\ ~call.fault
            /\ TRAP \notin Range(Fwd(Cur, l)) \cup Range(Bwd(Cur, l))
            /\ list[l].size = Len(t)
            /\ DataOf(Cur, Bwd(Cur, l)) = Rev(t)
            /\ Elems(Cur, 3 - l) = Elems(old, 3 - l)
            /\ call.op = "list_add_first" =>
                  t = IF call.ret = 1 THEN <<call.e>> \o s ELSE s
            /\ call.op = "list_add_last" =>
                  t = IF call.ret = 1 THEN s \o <<call.e>> ELSE s
            /\ (call.op = "list_remove_first" /\ s # <<>>) =>
                  call.ret = s[1] /\ t = SubSeq(s, 2, Len(s))
            /\ (call.op = "list_remove_last" /\ s # <<>>) =>
                  call.ret = s[Len(s)] /\ t = SubSeq(s, 1, Len(s) - 1)
            /\ (call.op \in {"list_remove_first", "list_remove_last"} /\ s = <<>>) =>
                  /\ call.ret = NULL
                  /\ list[l].size = 0 /\ list[l].head = NULL /\ list[l].tail = NULL
            /\ call.op \in {"list_add_first", "list_add_last"} =>
                  call.ret = call.a

\* list_remove_last has just returned the last of three elements that were
\* put in from both ends, after a removal on the empty list returned NULL.
C21_Witness ==
    /\ pc = "deque" /\ call.op = "list_remove_last" /\ call.l = 1
    /\ Elems(old, 1) = <<2, 1, 2>> /\ call.ret = 2
    /\ Elems(Cur, 1) = <<2, 1>> /\ DataOf(Cur, Bwd(Cur, 1)) = <<1, 2>>
    /\ Cardinality(live) = 2

\* C22: list_splice, list_splice_before and list_splice_after with list2 empty
\* and list1 not empty (and, for the two that take an index, the index less
\* than list1.size) return true and leave both lists, every cell and the set
\* of allocated cells as they were.
C22_SpliceEmptyDonor ==
    (/\ pc = "done"
     /\ call.op \in {"list_splice", "list_splice_before", "list_splice_after"}
     /\ old.list[call.l2].size = 0
     /\ old.list[call.l].size > 0
     /\ call.op # "list_splice" => call.i < old.list[call.l].size) =>
        /\ ~call.fault
        /\ call.ret = 1
        /\ list = old.list /\ node = old.node /\ live = old.live
        /\ Elems(Cur, call.l) = Elems(old, call.l)
        /\ Elems(Cur, call.l2) = <<>>

\* list_splice_after has returned true for the last index of a list of three
\* and an empty list2.
C22_Witness ==
    /\ Called("list_splice_after") /\ call.ret = 1 /\ ~call.fault
    /\ call.l = 1 /\ call.i = 2
    /\ old.list[2] = ZeroList /\ Elems(old, 1) = <<1, 2, 1>>
    /\ Elems(Cur, 1) = <<1, 2, 1>> /\ list[2] = ZeroList

\* C23: one list_reverse on a list of any size reverses it: the cells from
\* head after the call are the cells from tail before it (so the payloads are
\* in reverse order), head is the old tail and tail the old head, size is
\* unchanged, the allocated cells and every payload are the same, the cells
\* from tail are the reverse of those from head, and the list satisfies the
\* structural invariant (head has no prev, tail no next).
C23_ReverseOnce ==
    (pc = "second" /\ call.op = "list_reverse") =>
        /\ ~call.fault
        /\ Fwd(Cur, 1) = Bwd(old, 1)
        /\ Elems(Cur, 1) = Rev(Elems(old, 1))
        /\ list[1].head = old.list[1].tail /\ list[1].tail = old.list[1].head
        /\ list[1].size = old.list[1].size
        /\ live = old.live
        /\ \A p \in live : node[p].data = old.node[p].data
        /\ Bwd(Cur, 1) = Rev(Fwd(Cur, 1))
        /\ WellFormed(Cur, 1)
        /\ list[1].tail # NULL => node[list[1].tail].next = NULL

\* One list_reverse has turned a list of five around.
C23_Witness ==
    /\ pc = "second" /\ call.op = "list_reverse" /\ ~call.fault
    /\ Elems(old, 1) = <<1, 1, 2, 1, 2>> /\ Elems(Cur, 1) = <<2, 1, 2, 1, 1>>
    /\ Fwd(Cur, 1) = <<5, 4, 3, 2, 1>> /\ Bwd(Cur, 1) = <<1, 2, 3, 4, 5>>

\* The cells of list 1 in the order of the traversal in progress, as they
\* were when it started and as they are.
WalkOrder == IF iter.kind = "asc" THEN Fwd(old, 1) ELSE Bwd(old, 1)
WalkNow == IF iter.kind = "asc" THEN Fwd(Cur, 1) ELSE Bwd(Cur, 1)

\* During a traversal that removes nothing: the k-th advance hands out the
\* k-th cell of the list in the order of the traversal and its payload,
\* has_next is true exactly while fewer advances than size have been made,
\* the traversal ends after exactly size advances, and the list is untouched.
C24_Visits ==
    (pc \in {"scan", "done"} /\ call.op # "none" /\ call.plan = {}) =>
        LET v == WalkOrder
            n == old.list[1].size
        IN  /\ ~call.fault
            /\ Len(v) = n /\ call.k <= n
            /\ call.op \in Advances =>
                  /\ iter.last = v[call.k]
                  /\ call.ret = old.node[v[call.k]].data
            /\ HasNext(Cur) <=> call.k < n
            /\ pc = "done" => call.k = n /\ call.ret = 0
            /\ list = old.list /\ node = old.node /\ live = old.live

\* C24: a new ListIter advanced while list_iter_has_next is true, on a list
\* that is not changed meanwhile, hands out every element once, from head to
\* tail, and has_next is false after exactly size advances; a new ListDIter
\* does the same from tail to head; and every such traversal ends.
C24_Traversal ==
    /\ []C24_Visits
    /\ (call.op # "none" /\ call.plan = {}) ~> (pc = "done")

\* A backward traversal of three elements has ended after its third advance.
C24_Witness ==
    /\ pc = "done" /\ call.op = "list_diter_has_next" /\ call.plan = {}
    /\ call.k = 3 /\ Elems(Cur, 1) = <<1, 2, 2>> /\ iter.last = list[1].head

\* The elements of s at the positions in P, in order.
Pick(s, P) ==
    [i \in 1 .. Cardinality(P) |->
        s[CHOOSE j \in P : Cardinality({x \in P : x < j}) = i - 1]]

\* The advances of the traversal in progress whose element has been removed.
Gone == {j \in call.plan : j < call.k \/ (j = call.k /\ call.op \notin Advances)}

\* C25: in a traversal, forward or backward, in which the caller removes
\* through the cursor some of the elements it is handed: the k-th advance
\* hands out the k-th cell of the original list in traversal order whatever
\* was removed before; a removal returns the payload of the cell last handed
\* out, frees exactly that cell, takes it out of the list (size one less, the
\* other cells in their order from head and from tail, head and tail moved
\* when it was the first or last), clears the cursor's last cell and leaves
\* its upcoming cell the one that followed; no payload changes; and a
\* traversal that removes every element ends after size advances with the
\* list empty (size 0, head and tail NULL) and no cell allocated.
C25_CursorRemove ==
    (pc \in {"walk", "done"} /\ call.op # "none") =>
        LET v == WalkOrder
            n == old.list[1].size
            k == call.k
        IN  /\ ~call.fault
            /\ Len(v) = n /\ k <= n
            /\ WalkNow = Pick(v, (1 .. n) \ Gone)
            /\ WellFormed(Cur, 1)
            /\ Fwd(Cur, 1) = Rev(Bwd(Cur, 1))
            /\ list[1].size = n - Cardinality(Gone)
            /\ live = old.live \ {v[j] : j \in Gone}
            /\ \A p \in live : node[p].data = old.node[p].data
            /\ call.op \in Advances =>
                  iter.last = v[k] /\ call.ret = old.node[v[k]].data
            /\ call.op \in Removes =>
                  call.ret = old.node[v[k]].data /\ iter.last = NULL
            /\ iter.next = IF k < n THEN v[k + 1] ELSE NULL
            /\ pc = "done" =>
                  /\ k = n
                  /\ call.plan = 1 .. n => list[1] = ZeroList /\ live = {}

\* A backward traversal has just removed the middle element of three, after
\* removing the last, and its upcoming cell is the first.
C25_Witness ==
    /\ pc = "walk" /\ call.op = "list_diter_remove" /\ call.plan = {1, 2}
    /\ call.k = 2 /\ Elems(old, 1) = <<1, 2, 1>> /\ call.ret = 2
    /\ Elems(Cur, 1) = <<1>> /\ iter.next = list[1].head /\ live = {1}

\* C26: a new ListDIter over a list of n elements has index n - 1, and after
\* its k-th advance dlist_diter_index is n - k, the index counted from head of
\* the element that advance returned.
C26_DiterIndex ==
    (pc = "scan" /\ iter.kind = "desc" /\ ~call.fault) =>
        /\ call.op = "list_diter_new" =>
              iter.index = (old.list[1].size - 1) % SizeMod
        /\ call.op = "list_diter_next" =>
              /\ dlist_diter_index(Cur) = old.list[1].size - call.k
              /\ dlist_diter_index(Cur) = PosIn(Fwd(Cur, 1), iter.last) - 1

\* The second advance of a backward traversal of [1, 2] has returned the
\* element at index 0 and dlist_diter_index is 2.
C26_Witness ==
    /\ pc = "scan" /\ call.op = "list_diter_next" /\ call.k = 2 /\ ~call.fault
    /\ Elems(Cur, 1) = <<1, 2>> /\ call.ret = 1 /\ iter.last = list[1].head
    /\ dlist_diter_index(Cur) = 2

\* C27: list_splice(list1, list2) with list1 empty runs without reading
\* through NULL; with list2 not empty it leaves list1 holding the cells of
\* list2 in order, with the head, tail and size list2 had, and list2 empty;
\* with list2 empty too it leaves both lists empty.
C27_SpliceOntoEmpty ==
    (Called("list_splice") /\ old.list[call.l].size = 0) =>
        /\ ~call.fault
        /\ call.ret = 1
        /\ list[call.l] = old.list[call.l2]
        /\ Fwd(Cur, call.l) = Fwd(old, call.l2)
        /\ Elems(Cur, call.l) = Elems(old, call.l2)
        /\ list[call.l2] = ZeroList

\* list_splice of two empty lists reads list1->tail->next through NULL.
C27_Witness ==
    /\ Called("list_splice") /\ call.fault
    /\ old.list[call.l] = ZeroList /\ old.list[call.l2] = ZeroList

\* The sequence f with a and b exchanged.
Exchange(f, a, b) ==
    [k \in 1 .. Len(f) |-> IF f[k] = a THEN b ELSE IF f[k] = b THEN a ELSE f[k]]

\* C28: swap(n1, n2) on two different cells of a well-formed chain, whether
\* n1 is right before n2, right after it or elsewhere: the cells met walking
\* next from the cell now first are the original cells with n1 and n2
\* exchanged, and walking prev from the cell now last the reverse; each cell
\* and the one after it point at each other; the first has no prev and the
\* last no next; no cell points at itself; no payload, no other cell and no
\* field of the list is changed.
C28_Swap ==
    Called("swap") =>
        LET f == Fwd(old, 1)
            e == Exchange(f, call.i, call.a)
            n == Len(f)
        IN  /\ ~call.fault
            /\ ChainNext(Cur, e[1], MaxNodes) = e
            /\ ChainPrev(Cur, e[n], MaxNodes) = Rev(e)
            /\ \A k \in 1 .. n - 1 :
                  node[e[k]].next = e[k + 1] /\ node[e[k + 1]].prev = e[k]
            /\ node[e[1]].prev = NULL /\ node[e[n]].next = NULL
            /\ \A p \in live : node[p].next # p /\ node[p].prev # p
            /\ \A p \in live : node[p].data = old.node[p].data
            /\ list = old.list /\ live = old.live

\* swap has exchanged the third cell of a list of four with the second, its
\* neighbour on the left.
C28_Witness ==
    /\ Called("swap") /\ ~call.fault /\ call.i = 3 /\ call.a = 2
    /\ Fwd(old, 1) = <<1, 2, 3, 4>>
    /\ ChainNext(Cur, 1, MaxNodes) = <<1, 3, 2, 4>>
    /\ ChainPrev(Cur, 4, MaxNodes) = <<4, 2, 3, 1>>

=============================================================================
